---- MODULE Spec2Model ----
(***************************************************************************)
(* A model of the metering engine of energy-leaderboard-runner:            *)
(*   - Spec        the prompt loop of main.run_test driving one sampled    *)
(*                 meter instance (NvmlMeter, RocmSmiMeter, MacosMeter)    *)
(*                 and the background workers that instance launches;      *)
(*   - SpecSelect  integrator.get_platform_meter and the four probes;      *)
(*   - SpecEnergy  one start/stop window of each of the four backends      *)
(*                 with the values (power samples, counter values, wall    *)
(*                 clock) that decide the EnergyResult;                    *)
(*   - SpecExport  one call of result_exporter.export_results.             *)
(* Floating point numbers are modelled by exact integers over a fixed      *)
(* denominator (rounding is not modelled); integers wider than 31 bits     *)
(* are carried as a pair of joules and microjoules.                        *)
(***************************************************************************)
EXTENDS Integers, Sequences, FiniteSets, TLC

VARIABLES
    \* ---- shared by Spec and SpecEnergy: the meter instance ----
    kind,              \* class of the meter instance
    sampling_ms,       \* self.sampling_ms
    nvml_open,         \* successful pynvml.nvmlInit() calls of this process
                       \* minus its pynvml.nvmlShutdown() calls
    nvml_refs,         \* the library's own count: successful nvmlInit() calls
                       \* minus successful nvmlShutdown() calls; the library
                       \* answers queries while it is positive
    \* ---- Spec: meter instance, its workers, the main thread ----
    running,           \* self._running
    power_samples,     \* self.power_samples / self.output_lines; each element
                       \* is the id of the worker thread that appended it
    line_nos,          \* for each element of self.output_lines, the position
                       \* of that line in the output of the child it came from
    thread,            \* self.thread: id of the Thread object, 0 for None
    process,           \* self.process (MacosMeter): id of the Popen, 0 for None
    nvml_initialized,  \* self._nvml_initialized
    workers,           \* every Thread ever started: id -> [pc, lat]
    procs,             \* every powermetrics child ever spawned: id -> record
    pc,                \* position of the main thread in run_test
    idx,               \* prompt index of the for loop
    results,           \* run_test's results list (prompt indexes)
    calls_ok,          \* for each prompt, which of meter.start(),
                       \* llm_client.generate() and meter.stop() have returned
                       \* to the loop body without an exception
    atexit,            \* TRUE once the interpreter runs the atexit handler
    exit_status,       \* exit status of the program, NotExited while it runs
    export_called,     \* export_results has been called
    windowOpen,        \* a start() succeeded and no stop() has returned since
    joinLeft,          \* longest time (ms) the joined worker may still need
                       \* before it looks at self._running again
    \* ---- SpecSelect ----
    platform, probe, spc, tried, selected,
    \* ---- SpecEnergy ----
    epc,               \* idle, open (between start() and stop()), done
    now,               \* time.time(), in ms
    start_time, stop_time,        \* self.start_time, self.stop_time (ms)
    collected,         \* self.power_samples (mW for NVML, W for rocm-smi) or
                       \* self.output_lines (MacosMeter)
    zones,             \* the intel-rapl:* directories, in glob order
    rapl_path,         \* self.rapl_path: index of the cached zone, or None
    start_energy_uj,   \* self.start_energy_uj
    stop_energy_uj,    \* stop_energy_uj of RaplMeter.stop
    energy_diff_uj,    \* energy_diff_uj of RaplMeter.stop
    result,            \* what start()/stop() gave back to the caller
    \* ---- SpecExport: one call of result_exporter.export_results ----
    results_list,      \* the argument results_list
    co2_intensity,     \* the argument co2_intensity (g/kWh)
    schema_path,       \* what the argument schema_path leads to
    output_file,       \* the file named by the argument output_file
    enriched_results,  \* the local list enriched_results
    xpc,               \* position in export_results
    export_error       \* class of the exception export_results raised, or ""

runVars == <<running, power_samples, line_nos, thread, process,
             nvml_initialized, workers, procs, pc, idx, results, calls_ok,
             atexit, exit_status, export_called, windowOpen, joinLeft>>
selVars == <<platform, probe, spc, tried, selected>>
enVars  == <<epc, now, start_time, stop_time, collected, zones, rapl_path,
             start_energy_uj, stop_energy_uj, energy_diff_uj, result>>
expVars == <<results_list, co2_intensity, schema_path, output_file,
             enriched_results, xpc, export_error>>
vars == <<kind, sampling_ms, nvml_open, nvml_refs, runVars, selVars, enVars,
          expVars>>

(***************************************************************************)
(* Bounds of the model.                                                    *)
(***************************************************************************)
NumPrompts == 2      \* prompts of the testset
MaxSamples == 2      \* longest sample sequence of Spec
MaxLines == 1        \* lines one powermetrics child emits in Spec
LongSamplingMs == 2000   \* a SAMPLING_INTERVAL_MS above the join cap
SpawnMs == 50        \* time to fork/exec one rocm-smi child
FastExecMs == 40     \* run time of a quick rocm-smi child
MaxZones == 2        \* zone directories under /sys/class/powercap
MaxReadings == 3     \* longest sample sequence of SpecEnergy
TickMs == 50         \* granularity of the wall clock of SpecEnergy
MaxNow == 400        \* latest time a clock tick of SpecEnergy leads to

(***************************************************************************)
(* Program constants.                                                      *)
(***************************************************************************)
DEFAULT_SAMPLING_MS == 100    \* Config.SAMPLING_INTERVAL_MS default
JOIN_TIMEOUT_MS == 1000       \* self.thread.join(timeout=1.0)
ROCM_TIMEOUT_MS == 1000       \* subprocess.run(..., timeout=1.0)
NVML_CALL_MS == 1             \* one nvmlDeviceGetPowerUsage call
MACOS_WARMUP_MS == 300        \* time.sleep(0.3) of MacosMeter.start
MACOS_TRAIL_MS == 150         \* max(0.15, ...) of MacosMeter.stop

None == 0
NotExited == -1               \* the exit status of a program that still runs
Threads == 1..NumPrompts      \* one Thread per start(), one start() per prompt
SampledKinds == {"NvmlMeter", "RocmSmiMeter", "MacosMeter"}
AllKinds == SampledKinds \cup {"RaplMeter"}
\* int(os.getenv("SAMPLING_INTERVAL_MS", "100")): any integer the environment
\* holds is taken as it is.
SamplingChoices == {0, DEFAULT_SAMPLING_MS, LongSamplingMs}

(***************************************************************************)
(* Values the variables of the other two specifications rest at.           *)
(***************************************************************************)
\* A quantity too wide for 31 bits: j * 10^6 + uj, with 0 <= uj < 10^6
\* (joules and microjoules when the quantity is a counter value).
MICRO == 1000 * 1000
Norm(j, uj) == [j |-> j + (uj \div MICRO), uj |-> uj % MICRO]
ToBig(n) == Norm(0, n)
BigAdd(a, b) == Norm(a.j + b.j, a.uj + b.uj)
BigSub(a, b) == Norm(a.j - b.j, a.uj - b.uj)
BigNeg(a) == a.j < 0
BigLess(a, b) == BigNeg(BigSub(a, b))
Zero == ToBig(0)

\* The caller's view of a call: nothing yet, an exception, or the
\* EnergyResult dictionary. energy_wh_raw is carried in half-microjoules
\* (1 Wh = 7 200 000 000 half-microjoules), duration_s in milliseconds.
NoResult == [returned |-> FALSE, error |-> "", energy_wh_raw |-> Zero,
             duration_s |-> 0, sampling_ms |-> 0]
Raised(e) == [NoResult EXCEPT !.error = e]
EnergyResult(e, d, s) ==
    [returned |-> TRUE, error |-> "", energy_wh_raw |-> e,
     duration_s |-> d, sampling_ms |-> s]
SelIdle == /\ platform = "" /\ probe = <<>> /\ spc = "idle"
           /\ tried = <<>> /\ selected = ""
EnIdle == /\ epc = "idle" /\ now = 0 /\ start_time = 0 /\ stop_time = 0
          /\ collected = <<>> /\ zones = <<>> /\ rapl_path = None
          /\ start_energy_uj = Zero /\ stop_energy_uj = Zero
          /\ energy_diff_uj = Zero
          /\ result = NoResult
NoFile == [dir |-> "exists", state |-> "absent", writable |-> TRUE,
           content |-> <<>>]
ExpIdle == /\ results_list = <<>> /\ co2_intensity = 0 /\ schema_path = ""
           /\ output_file = NoFile /\ enriched_results = <<>>
           /\ xpc = "idle" /\ export_error = ""
RunIdle == /\ running = FALSE /\ power_samples = <<>> /\ thread = None
           /\ process = None /\ nvml_initialized = FALSE
           /\ workers = [i \in Threads |-> [pc |-> "unborn", lat |-> 0]]
           /\ procs = [i \in Threads |->
                         [state |-> "none", pipe |-> 0, emitted |-> 0,
                          termSent |-> FALSE, stubborn |-> FALSE,
                          denied |-> FALSE]]
           /\ pc = "loop" /\ idx = 0 /\ results = <<>> /\ atexit = FALSE
           /\ windowOpen = FALSE /\ joinLeft = 0
           /\ line_nos = <<>>
           /\ calls_ok = [i \in 1..NumPrompts |-> {}]
           /\ exit_status = NotExited /\ export_called = FALSE

(***************************************************************************)
(* Spec: run_test, one meter instance and its background workers.          *)
(***************************************************************************)

\* No action of Spec touches the other specifications' variables.
RunFrame == UNCHANGED <<kind, sampling_ms, nvml_open, nvml_refs, selVars,
                        enVars, expVars>>

\* The same for the steps that call into the NVML library.
NvmlRunFrame == UNCHANGED <<kind, sampling_ms, selVars, enVars, expVars>>

\* A worker thread that has been started and has not returned from its target.
Alive(i) == workers[i].pc \notin {"unborn", "dead"}

\* `self.thread and self.thread.is_alive()`
ThreadIsAlive == IF thread = None THEN FALSE ELSE Alive(thread)

\* The id the next threading.Thread (and the next Popen) gets.
NextThread == Cardinality({i \in Threads : workers[i].pc # "unborn"}) + 1

\* How long one poll of the power source can take: a library call for NVML,
\* fork/exec plus up to the subprocess timeout for rocm-smi.
PollLatencies(k) ==
    IF k = "NvmlMeter" THEN {NVML_CALL_MS}
    ELSE {SpawnMs + FastExecMs, SpawnMs + ROCM_TIMEOUT_MS - 1}

\* Longest time before worker record w evaluates `while self._running` again.
Remaining(w) ==
    CASE w.pc = "poll"  -> w.lat + sampling_ms
      [] w.pc = "sleep" -> sampling_ms
      [] OTHER          -> 0

\* threading.Thread(target=..., daemon=True); self.thread.start()
SpawnedWorkers(firstPc) ==
    [workers EXCEPT ![NextThread] = [pc |-> firstPc, lat |-> 0]]

\* for idx, question in enumerate(questions, start=1)
LoopNext ==
    /\ RunFrame
    /\ pc = "loop"
    /\ IF idx < NumPrompts
         THEN idx' = idx + 1 /\ pc' = "start"
         ELSE idx' = idx /\ pc' = "finish"
    /\ UNCHANGED <<running, power_samples, line_nos, thread, process,
                   nvml_initialized, workers, procs, results, calls_ok, atexit,
                   exit_status, export_called, windowOpen, joinLeft>>

\* NvmlMeter.start(): nvmlInit or nvmlDeviceGetHandleByIndex raises, the
\* RuntimeError reaches run_test's `except Exception` and the loop continues.
NvmlStartFails ==
    /\ NvmlRunFrame
    /\ pc = "start" /\ kind = "NvmlMeter"
    /\ \E initOk \in BOOLEAN :
         /\ nvml_initialized' = (nvml_initialized \/ initOk)
         /\ nvml_open' = IF initOk THEN nvml_open + 1 ELSE nvml_open
         /\ nvml_refs' = IF initOk THEN nvml_refs + 1 ELSE nvml_refs
    /\ pc' = "loop"
    /\ UNCHANGED <<running, power_samples, line_nos, thread, process, workers,
                   procs, idx, results, calls_ok, atexit, exit_status,
                   export_called, windowOpen, joinLeft>>

\* NvmlMeter.start(), no exception.
NvmlStart ==
    /\ NvmlRunFrame
    /\ pc = "start" /\ kind = "NvmlMeter"
    /\ nvml_initialized' = TRUE
    /\ nvml_open' = nvml_open + 1
    /\ nvml_refs' = nvml_refs + 1
    /\ running' = TRUE
    /\ power_samples' = <<>>
    /\ line_nos' = <<>>
    /\ thread' = NextThread
    /\ workers' = SpawnedWorkers("check")
    /\ windowOpen' = TRUE
    /\ calls_ok' = [calls_ok EXCEPT ![idx] = @ \cup {"start"}]
    /\ pc' = "generate"
    /\ UNCHANGED <<process, procs, idx, results, atexit, exit_status,
                   export_called, joinLeft>>

\* RocmSmiMeter.start(): shutil.which("rocm-smi") is None.
RocmStartFails ==
    /\ RunFrame
    /\ pc = "start" /\ kind = "RocmSmiMeter"
    /\ pc' = "loop"
    /\ UNCHANGED <<running, power_samples, line_nos, thread, process,
                   nvml_initialized, workers, procs, idx, results, calls_ok,
                   atexit, exit_status, export_called, windowOpen, joinLeft>>

\* RocmSmiMeter.start(), no exception.
RocmStart ==
    /\ RunFrame
    /\ pc = "start" /\ kind = "RocmSmiMeter"
    /\ running' = TRUE
    /\ power_samples' = <<>>
    /\ line_nos' = <<>>
    /\ thread' = NextThread
    /\ workers' = SpawnedWorkers("check")
    /\ windowOpen' = TRUE
    /\ calls_ok' = [calls_ok EXCEPT ![idx] = @ \cup {"start"}]
    /\ pc' = "generate"
    /\ UNCHANGED <<process, nvml_initialized, procs, idx, results, atexit,
                   exit_status, export_called, joinLeft>>

\* MacosMeter.start(): subprocess.Popen raises after the flag and the list
\* have been reset; self.process and self.thread keep their old values.
MacosStartFails ==
    /\ RunFrame
    /\ pc = "start" /\ kind = "MacosMeter"
    /\ running' = TRUE
    /\ power_samples' = <<>>
    /\ line_nos' = <<>>
    /\ pc' = "loop"
    /\ UNCHANGED <<thread, process, nvml_initialized, workers, procs, idx,
                   results, calls_ok, atexit, exit_status, export_called,
                   windowOpen, joinLeft>>

\* How the `sudo powermetrics` child behaves: it samples until terminated, it
\* ignores terminate, or sudo refuses the elevation and the child exits by
\* itself without writing a line to stdout.
ChildBehaviours ==
    { [stubborn |-> FALSE, denied |-> FALSE],
      [stubborn |-> TRUE, denied |-> FALSE],
      [stubborn |-> FALSE, denied |-> TRUE] }

\* MacosMeter.start(), no exception (returns after time.sleep(0.3)).
MacosStart ==
    /\ RunFrame
    /\ pc = "start" /\ kind = "MacosMeter"
    /\ running' = TRUE
    /\ power_samples' = <<>>
    /\ line_nos' = <<>>
    /\ process' = NextThread
    /\ \E b \in ChildBehaviours :
         procs' = [procs EXCEPT ![NextThread] =
                     [state |-> "running", pipe |-> 0, emitted |-> 0,
                      termSent |-> FALSE, stubborn |-> b.stubborn,
                      denied |-> b.denied]]
    /\ thread' = NextThread
    /\ workers' = SpawnedWorkers("read")
    /\ windowOpen' = TRUE
    /\ calls_ok' = [calls_ok EXCEPT ![idx] = @ \cup {"start"}]
    /\ pc' = "generate"
    /\ UNCHANGED <<nvml_initialized, idx, results, atexit, exit_status,
                   export_called, joinLeft>>

\* RaplMeter.start() raises RuntimeError (no zone with an energy_uj entry, or
\* the counter read fails): run_test's `except Exception` takes it and the
\* loop continues.
RaplStartFails ==
    /\ RunFrame
    /\ pc = "start" /\ kind = "RaplMeter"
    /\ pc' = "loop"
    /\ UNCHANGED <<running, power_samples, line_nos, thread, process,
                   nvml_initialized, workers, procs, idx, results, calls_ok,
                   atexit, exit_status, export_called, windowOpen, joinLeft>>

\* RaplMeter.start() raises PermissionError: run_test's inner handler prints
\* the advice and calls sys.exit(1); SystemExit is no Exception, so it leaves
\* the loop and the interpreter runs the registered cleanup().
RaplStartDenied ==
    /\ RunFrame
    /\ pc = "start" /\ kind = "RaplMeter"
    /\ atexit' = TRUE
    /\ exit_status' = 1
    /\ pc' = "stop"
    /\ UNCHANGED <<export_called, running, power_samples, line_nos, thread,
                   process, nvml_initialized, workers, procs, idx, results,
                   calls_ok, windowOpen, joinLeft>>

\* RaplMeter.start(), no exception: start time and baseline are recorded, no
\* worker is launched.
RaplStart ==
    /\ RunFrame
    /\ pc = "start" /\ kind = "RaplMeter"
    /\ windowOpen' = TRUE
    /\ calls_ok' = [calls_ok EXCEPT ![idx] = @ \cup {"start"}]
    /\ pc' = "generate"
    /\ UNCHANGED <<running, power_samples, line_nos, thread, process,
                   nvml_initialized, workers, procs, idx, results, atexit,
                   exit_status, export_called, joinLeft>>

\* RaplMeter.stop() up to the computation: stop time and the second read.
RaplStop ==
    /\ RunFrame
    /\ pc = "stop" /\ kind = "RaplMeter"
    /\ pc' = "compute"
    /\ UNCHANGED <<running, power_samples, line_nos, thread, process,
                   nvml_initialized, workers, procs, idx, results, calls_ok,
                   atexit, exit_status, export_called, windowOpen, joinLeft>>

\* RaplMeter.stop() raises RuntimeError (the read fails, or no zone was ever
\* cached): the loop's handler continues with the next prompt, cleanup()
\* swallows it.
RaplStopFails ==
    /\ RunFrame
    /\ pc = "stop" /\ kind = "RaplMeter"
    /\ pc' = IF atexit THEN "exited" ELSE "loop"
    /\ UNCHANGED <<running, power_samples, line_nos, thread, process,
                   nvml_initialized, workers, procs, idx, results, calls_ok,
                   atexit, exit_status, export_called, windowOpen, joinLeft>>

\* llm_client.generate(model=model, prompt=prompt) returns.
Generate ==
    /\ RunFrame
    /\ pc = "generate"
    /\ calls_ok' = [calls_ok EXCEPT ![idx] = @ \cup {"generate"}]
    /\ pc' = "stop"
    /\ UNCHANGED <<running, power_samples, line_nos, thread, process,
                   nvml_initialized, workers, procs, idx, results, atexit,
                   exit_status, export_called, windowOpen, joinLeft>>

\* Faulty variant of GenerateRaises: the handler appends an entry for the
\* prompt before it continues.
GenerateRaises_Recorded ==
    /\ RunFrame
    /\ pc = "generate"
    /\ results' = Append(results, idx)
    /\ pc' = "loop"
    /\ UNCHANGED <<running, power_samples, line_nos, thread, process,
                   nvml_initialized, workers, procs, idx, calls_ok,
                   atexit, exit_status, export_called, windowOpen, joinLeft>>

\* llm_client.generate raises: `except Exception ... continue`, meter.stop()
\* is not reached for this prompt.
GenerateRaises ==
    /\ RunFrame
    /\ pc = "generate"
    /\ pc' = "loop"
    /\ UNCHANGED <<running, power_samples, line_nos, thread, process,
                   nvml_initialized, workers, procs, idx, results, calls_ok,
                   atexit, exit_status, export_called, windowOpen, joinLeft>>

\* NvmlMeter.stop() / RocmSmiMeter.stop() up to the join: stop_time is taken
\* and the flag cleared.
StopSignal ==
    /\ RunFrame
    /\ pc = "stop" /\ kind \in {"NvmlMeter", "RocmSmiMeter"}
    /\ running' = FALSE
    /\ joinLeft' = IF thread = None THEN 0 ELSE Remaining(workers[thread])
    /\ pc' = "join"
    /\ UNCHANGED <<power_samples, line_nos, thread, process, nvml_initialized,
                   workers, procs, idx, results, calls_ok, atexit, exit_status,
                   export_called, windowOpen>>

\* MacosMeter.stop() up to process.wait: the trailing sleep, stop_time, the
\* flag cleared, process.terminate().
MacosStopSignal ==
    /\ RunFrame
    /\ pc = "stop" /\ kind = "MacosMeter"
    /\ running' = FALSE
    /\ joinLeft' = 0
    /\ IF process = None
         THEN pc' = "join" /\ procs' = procs
         ELSE /\ pc' = "wait"
              /\ procs' = [procs EXCEPT ![process].termSent = TRUE]
    /\ UNCHANGED <<power_samples, line_nos, thread, process, nvml_initialized,
                   workers, idx, results, calls_ok, atexit, exit_status,
                   export_called, windowOpen>>

\* self.process.wait(timeout=2.0) returns: the child has exited.
MacosWaitDone ==
    /\ RunFrame
    /\ pc = "wait" /\ procs[process].state = "exited"
    /\ pc' = "join"
    /\ UNCHANGED <<running, power_samples, line_nos, thread, process,
                   nvml_initialized, workers, procs, idx, results, calls_ok,
                   atexit, exit_status, export_called, windowOpen, joinLeft>>

\* Faulty variant of MacosWaitTimeout: the TimeoutExpired is swallowed, no
\* kill is sent.
MacosWaitTimeout_NoKill ==
    /\ RunFrame
    /\ pc = "wait" /\ procs[process].state = "running"
    /\ procs[process].stubborn
    /\ pc' = "join"
    /\ UNCHANGED <<running, power_samples, line_nos, thread, process,
                   nvml_initialized, workers, procs, idx, results, calls_ok,
                   atexit, exit_status, export_called, windowOpen, joinLeft>>

\* subprocess.TimeoutExpired: self.process.kill(); self.process.wait()
MacosWaitTimeout ==
    /\ RunFrame
    /\ pc = "wait" /\ procs[process].state = "running"
    /\ procs[process].stubborn
    /\ procs' = [procs EXCEPT ![process].state = "exited"]
    /\ pc' = "join"
    /\ UNCHANGED <<running, power_samples, line_nos, thread, process,
                   nvml_initialized, workers, idx, results, calls_ok, atexit,
                   exit_status, export_called, windowOpen, joinLeft>>

\* What follows the join in NvmlMeter.stop(): nvmlShutdown() under
\* `if self._nvml_initialized`, whose exception is swallowed.
AfterJoin ==
    /\ IF kind = "NvmlMeter" /\ nvml_initialized
         THEN /\ \E shutOk \in BOOLEAN :
                   /\ nvml_initialized' = ~shutOk
                   /\ nvml_refs' = IF shutOk THEN nvml_refs - 1 ELSE nvml_refs
              /\ nvml_open' = nvml_open - 1
         ELSE /\ nvml_initialized' = nvml_initialized
              /\ nvml_open' = nvml_open
              /\ nvml_refs' = nvml_refs
    /\ pc' = "compute"
    /\ UNCHANGED <<running, power_samples, line_nos, thread, process, workers,
                   procs, idx, results, calls_ok, atexit, exit_status,
                   export_called, windowOpen, joinLeft>>

\* `if self.thread and self.thread.is_alive(): self.thread.join(timeout=1.0)`
\* where the thread is absent, dead already, or ends within the timeout.
JoinDone ==
    /\ NvmlRunFrame
    /\ pc = "join"
    /\ ~ThreadIsAlive
    /\ AfterJoin

\* join(timeout=1.0) returns with the thread still alive: the worker is in a
\* poll that outlasts the timeout, or in a sleep that, added to the poll it
\* followed, outlasts it.
JoinTimeout ==
    /\ NvmlRunFrame
    /\ pc = "join"
    /\ ThreadIsAlive
    /\ \/ workers[thread].pc = "poll" /\ workers[thread].lat > JOIN_TIMEOUT_MS
       \/ workers[thread].pc = "sleep" /\ joinLeft > JOIN_TIMEOUT_MS
    \* the flag has been false for the whole second, so a poll still in
    \* flight was begun before it and takes longer than that
    /\ \A i \in Threads :
         workers[i].pc = "poll" => workers[i].lat > JOIN_TIMEOUT_MS
    /\ AfterJoin

\* The rest of stop(): the sample sequence is read, the EnergyResult built
\* and returned (to the prompt loop, or to the atexit handler).
StopCompute ==
    /\ RunFrame
    /\ pc = "compute"
    /\ windowOpen' = FALSE
    /\ calls_ok' = IF atexit THEN calls_ok
                   ELSE [calls_ok EXCEPT ![idx] = @ \cup {"stop"}]
    /\ pc' = IF atexit THEN "exited" ELSE "record"
    /\ UNCHANGED <<running, power_samples, line_nos, thread, process,
                   nvml_initialized, workers, procs, idx, results, atexit,
                   exit_status, export_called, joinLeft>>

\* results.append(result)
Record ==
    /\ RunFrame
    /\ pc = "record"
    /\ results' = Append(results, idx)
    /\ pc' = "loop"
    /\ UNCHANGED <<calls_ok, running, power_samples, line_nos, thread, process,
                   nvml_initialized, workers, procs, idx, atexit, exit_status,
                   export_called, windowOpen, joinLeft>>

\* After the loop: `if not results: sys.exit(1)`, else export_results is
\* called and the program ends with status 0, or with sys.exit(1) when the
\* export raised; the interpreter then runs the registered cleanup(), which
\* calls meter.stop().
Finish ==
    /\ RunFrame
    /\ pc = "finish"
    /\ IF results = <<>>
         THEN export_called' = FALSE /\ exit_status' = 1
         ELSE /\ export_called' = TRUE
              /\ \E exported \in BOOLEAN :
                   exit_status' = IF exported THEN 0 ELSE 1
    /\ atexit' = TRUE
    /\ pc' = "stop"
    /\ UNCHANGED <<running, power_samples, line_nos, thread, process,
                   nvml_initialized, workers, procs, idx, results, calls_ok,
                   windowOpen, joinLeft>>

\* _poll_power: `while self._running:` is evaluated; the loop body is entered
\* or the thread returns.
WorkerCheck(i) ==
    /\ RunFrame
    /\ pc # "exited" /\ workers[i].pc = "check"
    /\ IF running
         THEN \E lat \in PollLatencies(kind) :
                workers' = [workers EXCEPT ![i] = [pc |-> "poll", lat |-> lat]]
         ELSE workers' = [workers EXCEPT ![i].pc = "dead"]
    /\ UNCHANGED <<running, power_samples, line_nos, thread, process,
                   nvml_initialized, procs, pc, idx, results, calls_ok, atexit,
                   exit_status, export_called, windowOpen, joinLeft>>

\* _poll_power: the read succeeds, self.power_samples.append(...).  A
\* nvmlDeviceGetPowerUsage call on a library that is shut down raises.
WorkerPoll(i) ==
    /\ RunFrame
    /\ pc # "exited" /\ workers[i].pc = "poll"
    /\ kind = "NvmlMeter" => nvml_refs > 0
    /\ Len(power_samples) < MaxSamples
    /\ power_samples' = Append(power_samples, i)
    /\ line_nos' = line_nos
    /\ workers' = [workers EXCEPT ![i].pc = "sleep"]
    /\ UNCHANGED <<running, thread, process, nvml_initialized, procs, pc, idx,
                   results, calls_ok, atexit, exit_status, export_called,
                   windowOpen, joinLeft>>

\* Faulty variant of WorkerPollFails: the exception leaves _poll_power and
\* ends the thread.
WorkerPollFails_EndsLoop(i) ==
    /\ RunFrame
    /\ pc # "exited" /\ workers[i].pc = "poll"
    /\ workers' = [workers EXCEPT ![i].pc = "dead"]
    /\ UNCHANGED <<running, power_samples, line_nos, thread, process,
                   nvml_initialized, procs, pc, idx, results, calls_ok, atexit,
                   exit_status, export_called, windowOpen, joinLeft>>

\* _poll_power: the read raises, times out, returns non-zero or cannot be
\* parsed; the sample is skipped.
WorkerPollFails(i) ==
    /\ RunFrame
    /\ pc # "exited" /\ workers[i].pc = "poll"
    /\ workers' = [workers EXCEPT ![i].pc = "sleep"]
    /\ UNCHANGED <<running, power_samples, line_nos, thread, process,
                   nvml_initialized, procs, pc, idx, results, calls_ok, atexit,
                   exit_status, export_called, windowOpen, joinLeft>>

\* _poll_power: time.sleep(interval_s) returns.
WorkerWake(i) ==
    /\ RunFrame
    /\ pc # "exited" /\ workers[i].pc = "sleep"
    /\ workers' = [workers EXCEPT ![i].pc = "check"]
    /\ UNCHANGED <<running, power_samples, line_nos, thread, process,
                   nvml_initialized, procs, pc, idx, results, calls_ok, atexit,
                   exit_status, export_called, windowOpen, joinLeft>>

\* The powermetrics child writes one line to its stdout pipe.
ProcEmit(i) ==
    /\ RunFrame
    /\ pc # "exited" /\ procs[i].state = "running"
    /\ ~procs[i].denied
    /\ procs[i].emitted < MaxLines
    /\ procs' = [procs EXCEPT ![i].pipe = @ + 1, ![i].emitted = @ + 1]
    /\ UNCHANGED <<running, power_samples, line_nos, thread, process,
                   nvml_initialized, workers, pc, idx, results, calls_ok,
                   atexit, exit_status, export_called, windowOpen, joinLeft>>

\* The powermetrics child exits: on the terminate signal, or by itself when
\* sudo refused it.
ProcExit(i) ==
    /\ RunFrame
    /\ procs[i].state = "running"
    /\ IF procs[i].denied THEN TRUE
       ELSE procs[i].termSent /\ ~procs[i].stubborn
    /\ procs' = [procs EXCEPT ![i].state = "exited"]
    /\ UNCHANGED <<running, power_samples, line_nos, thread, process,
                   nvml_initialized, workers, pc, idx, results, calls_ok,
                   atexit, exit_status, export_called, windowOpen, joinLeft>>

\* _read_output: readline returns a line; `if not self._running: break`,
\* else self.output_lines.append(line.strip()).
ReaderLine(i) ==
    /\ RunFrame
    /\ pc # "exited" /\ workers[i].pc = "read"
    /\ procs[i].pipe > 0
    /\ procs' = [procs EXCEPT ![i].pipe = @ - 1]
    /\ IF running
         THEN /\ power_samples' = Append(power_samples, i)
              /\ line_nos' = Append(line_nos,
                                    procs[i].emitted - procs[i].pipe + 1)
              /\ workers' = workers
         ELSE /\ power_samples' = power_samples
              /\ line_nos' = line_nos
              /\ workers' = [workers EXCEPT ![i].pc = "dead"]
    /\ UNCHANGED <<running, thread, process, nvml_initialized, pc, idx,
                   results, calls_ok, atexit, exit_status, export_called,
                   windowOpen, joinLeft>>

\* _read_output: readline returns "" (the child exited and the pipe is empty).
ReaderEOF(i) ==
    /\ RunFrame
    /\ pc # "exited" /\ workers[i].pc = "read"
    /\ procs[i].state = "exited" /\ procs[i].pipe = 0
    /\ workers' = [workers EXCEPT ![i].pc = "dead"]
    /\ UNCHANGED <<running, power_samples, line_nos, thread, process,
                   nvml_initialized, procs, pc, idx, results, calls_ok, atexit,
                   exit_status, export_called, windowOpen, joinLeft>>

Init ==
    /\ kind \in AllKinds
    /\ sampling_ms \in SamplingChoices
    /\ nvml_open = 0 /\ nvml_refs = 0
    /\ RunIdle /\ SelIdle /\ EnIdle /\ ExpIdle

Next ==
    \/ LoopNext
    \/ NvmlStartFails \/ NvmlStart
    \/ RocmStartFails \/ RocmStart
    \/ MacosStartFails \/ MacosStart
    \/ RaplStartFails \/ RaplStartDenied \/ RaplStart
    \/ RaplStop \/ RaplStopFails
    \/ Generate \/ GenerateRaises
    \/ StopSignal \/ MacosStopSignal \/ MacosWaitDone \/ MacosWaitTimeout
    \/ JoinDone \/ JoinTimeout
    \/ StopCompute \/ Record \/ Finish
    \/ \E i \in Threads :
         \/ WorkerCheck(i) \/ WorkerPoll(i) \/ WorkerPollFails(i)
         \/ WorkerWake(i)
         \/ ProcEmit(i) \/ ProcExit(i) \/ ReaderLine(i) \/ ReaderEOF(i)

Spec == Init /\ [][Next]_vars

\* The steps of the main thread that need nothing but the processor, and the
\* steps of worker i.  Not among them: llm_client.generate, which waits for
\* the model server without a timeout of its own.
MainStep ==
    \/ LoopNext
    \/ NvmlStartFails \/ NvmlStart
    \/ RocmStartFails \/ RocmStart
    \/ MacosStartFails \/ MacosStart
    \/ RaplStartFails \/ RaplStartDenied \/ RaplStart
    \/ RaplStop \/ RaplStopFails
    \/ StopSignal \/ MacosStopSignal \/ MacosWaitDone \/ MacosWaitTimeout
    \/ JoinDone \/ JoinTimeout
    \/ StopCompute \/ Record \/ Finish
WorkerStep(i) ==
    \/ WorkerCheck(i) \/ WorkerPoll(i) \/ WorkerPollFails(i) \/ WorkerWake(i)
    \/ ProcEmit(i) \/ ProcExit(i) \/ ReaderLine(i) \/ ReaderEOF(i)

\* Spec under fair scheduling of the threads: a thread that can run is
\* eventually run.
FairSpec ==
    /\ Init /\ [][Next]_vars
    /\ WF_vars(MainStep)
    /\ \A i \in Threads : WF_vars(WorkerStep(i))

(***************************************************************************)
(* SpecSelect: integrator.get_platform_meter and the availability probes.  *)
(***************************************************************************)
Platforms == {"darwin", "linux", "win32"}
\* What `import pynvml`, nvmlInit and nvmlDeviceGetCount do on this host.
NvmlEnvs == {"no_module", "init_fails", "count_fails", "count_0", "count_1",
             "shutdown_fails"}
\* A zone directory /sys/class/powercap/intel-rapl:N: without an energy_uj
\* entry, with an unreadable one, with a readable one.
ZoneKinds == {"no_file", "unreadable", "readable"}
ZoneLists == UNION {[1..n -> ZoneKinds] : n \in 0..MaxZones}

\* No action of SpecSelect touches these.
SelFrame == UNCHANGED <<kind, sampling_ms, nvml_open, nvml_refs, runVars, epc,
                        now, start_time, stop_time, collected, zones,
                        start_energy_uj, stop_energy_uj, energy_diff_uj,
                        result, expVars>>

\* The same for the probe that calls into the NVML library.
NvmlSelFrame == UNCHANGED <<kind, sampling_ms, runVars, epc, now, start_time,
                            stop_time, collected, zones, start_energy_uj,
                            stop_energy_uj, energy_diff_uj, result,
                            expVars>>

\* How a call of is_available() ends: it returns a bool, or an exception
\* leaves it.
Returns(v) == [raised |-> FALSE, value |-> v]
Throws == [raised |-> TRUE, value |-> FALSE]

\* Faulty variant of MacosProbe: the probe fails on every platform.
MacosProbe_Never(p) == Returns(FALSE)

\* MacosMeter.is_available: return sys.platform == "darwin"
MacosProbe(p) == Returns(p = "darwin")

\* MacosMeter.is_available
MacosIsAvailable(p) == MacosProbe(p).value

\* Faulty variant of NvmlProbe: no `except Exception` around the library calls.
NvmlProbe_NoHandler(n) ==
    IF n = "no_module" THEN Returns(FALSE)
    ELSE IF n \in {"init_fails", "count_fails", "shutdown_fails"} THEN Throws
    ELSE Returns(n # "count_0")

\* NvmlMeter.is_available: False without the module; nvmlInit,
\* nvmlDeviceGetCount, nvmlShutdown inside try, `except Exception: return
\* False`; else device_count > 0.
NvmlProbe(n) ==
    IF n = "no_module" THEN Returns(FALSE)
    ELSE IF n \in {"init_fails", "count_fails", "shutdown_fails"}
           THEN Returns(FALSE)
    ELSE Returns(n # "count_0")

\* NvmlMeter.is_available
NvmlIsAvailable(n) == NvmlProbe(n).value

\* NvmlMeter.is_available: what one probe adds to the count of nvmlInit calls
\* without a nvmlShutdown call.  nvmlShutdown is the last statement of the
\* try body, so it is skipped when nvmlDeviceGetCount raises.
NvmlProbeLeaves(n) ==
    IF n \in {"no_module", "init_fails"} THEN 0       \* no successful nvmlInit
    ELSE IF n = "count_fails" THEN 1                  \* init, no shutdown
    ELSE 0                                            \* init, then shutdown

\* NvmlMeter.is_available: what one probe adds to the library's own count;
\* a nvmlShutdown that raises has released nothing.
NvmlProbeRefs(n) ==
    IF n \in {"count_fails", "shutdown_fails"} THEN 1 ELSE 0

\* RocmSmiMeter.is_available: shutil.which("rocm-smi") is not None
RocmProbe(found) == Returns(found)

\* RocmSmiMeter.is_available
RocmIsAvailable(found) == RocmProbe(found).value

\* Faulty variant of RaplScan: zones whose energy_uj cannot be read are
\* passed over.
RaplScan_FirstReadable(base, zs) ==
    IF ~base THEN None
    ELSE IF \E i \in 1..Len(zs) : zs[i] = "readable"
           THEN CHOOSE i \in 1..Len(zs) :
                  /\ zs[i] = "readable"
                  /\ \A j \in 1..(i - 1) : zs[j] # "readable"
           ELSE None

\* RaplMeter.is_available, the zone it caches in self.rapl_path: the first
\* zone of the glob that has an energy_uj entry (None when there is none or
\* /sys/class/powercap does not exist).
RaplScan(base, zs) ==
    IF ~base THEN None
    ELSE IF \E i \in 1..Len(zs) : zs[i] # "no_file"
           THEN CHOOSE i \in 1..Len(zs) :
                  /\ zs[i] # "no_file"
                  /\ \A j \in 1..(i - 1) : zs[j] = "no_file"
           ELSE None

\* RaplMeter.is_available: False when /sys/class/powercap does not exist or no
\* zone of the glob has an energy_uj entry.
RaplProbe(base, zs) == Returns(RaplScan(base, zs) # None)

\* RaplMeter.is_available
RaplIsAvailable(base, zs) == RaplProbe(base, zs).value

\* get_platform_meter on darwin: MacosMeter(...) is built and probed; were the
\* probe false, control would fall through both `if`s to the final raise.
ProbeMacos ==
    /\ SelFrame
    /\ spc = "start" /\ platform = "darwin"
    /\ tried' = Append(tried, "MacosMeter")
    /\ IF MacosIsAvailable(platform)
         THEN selected' = "MacosMeter" /\ spc' = "done"
         ELSE selected' = selected /\ spc' = "raise_platform"
    /\ UNCHANGED <<platform, probe, rapl_path>>

\* Faulty variant of ProbeNvml: the rocm-smi probe is consulted before the NVML one.
ProbeNvml_RocmFirst ==
    /\ NvmlSelFrame
    /\ nvml_open' = IF RocmIsAvailable(probe.rocm) THEN nvml_open
                     ELSE nvml_open + NvmlProbeLeaves(probe.nvml)
    /\ nvml_refs' = IF RocmIsAvailable(probe.rocm) THEN nvml_refs
                     ELSE nvml_refs + NvmlProbeRefs(probe.nvml)
    /\ spc = "start" /\ platform = "linux"
    /\ IF RocmIsAvailable(probe.rocm)
         THEN /\ tried' = Append(tried, "RocmSmiMeter")
              /\ selected' = "RocmSmiMeter" /\ spc' = "done"
         ELSE /\ tried' = tried \o <<"RocmSmiMeter", "NvmlMeter">>
              /\ IF NvmlIsAvailable(probe.nvml)
                   THEN selected' = "NvmlMeter" /\ spc' = "done"
                   ELSE selected' = selected /\ spc' = "rapl"
    /\ UNCHANGED <<platform, probe, rapl_path>>

\* get_platform_meter on linux: NvmlMeter is tried first.
ProbeNvml ==
    /\ NvmlSelFrame
    /\ spc = "start" /\ platform = "linux"
    /\ tried' = Append(tried, "NvmlMeter")
    /\ nvml_open' = nvml_open + NvmlProbeLeaves(probe.nvml)
    /\ nvml_refs' = nvml_refs + NvmlProbeRefs(probe.nvml)
    /\ IF NvmlIsAvailable(probe.nvml)
         THEN selected' = "NvmlMeter" /\ spc' = "done"
         ELSE selected' = selected /\ spc' = "rocm"
    /\ UNCHANGED <<platform, probe, rapl_path>>

\* Faulty variant of ProbeRocm: the probe result counts only for a meter built
\* with the default sampling interval.
ProbeRocm_SamplingDependent ==
    /\ SelFrame
    /\ spc = "rocm"
    /\ tried' = Append(tried, "RocmSmiMeter")
    /\ IF RocmIsAvailable(probe.rocm) /\ sampling_ms = DEFAULT_SAMPLING_MS
         THEN selected' = "RocmSmiMeter" /\ spc' = "done"
         ELSE selected' = selected /\ spc' = "rapl"
    /\ UNCHANGED <<platform, probe, rapl_path>>

\* get_platform_meter on linux: RocmSmiMeter is tried second.
ProbeRocm ==
    /\ SelFrame
    /\ spc = "rocm"
    /\ tried' = Append(tried, "RocmSmiMeter")
    /\ IF RocmIsAvailable(probe.rocm)
         THEN selected' = "RocmSmiMeter" /\ spc' = "done"
         ELSE selected' = selected /\ spc' = "rapl"
    /\ UNCHANGED <<platform, probe, rapl_path>>

\* get_platform_meter on linux: RaplMeter is tried last; its probe caches the
\* zone it found.
ProbeRapl ==
    /\ SelFrame
    /\ spc = "rapl"
    /\ tried' = Append(tried, "RaplMeter")
    /\ rapl_path' = RaplScan(probe.base, zones)
    /\ IF RaplIsAvailable(probe.base, zones)
         THEN selected' = "RaplMeter" /\ spc' = "done"
         ELSE selected' = selected /\ spc' = "raise_linux"
    /\ UNCHANGED <<platform, probe>>

\* What the two NotImplementedError messages of get_platform_meter say: the
\* interfaces or platforms they list as supported, and their advice.
LinuxErrorMessage ==
    [supported |-> {"NVIDIA GPU (NVML)", "AMD GPU (ROCm-smi)",
                    "Intel/AMD CPU (RAPL)"},
     advice |-> "Please check that appropriate drivers and tools are installed."]
PlatformErrorMessage ==
    [supported |-> {"macOS (darwin)", "Linux"},
     advice |-> "Windows support is not currently planned."]
ErrorMessage(sel) ==
    IF sel = "NotImplementedError: no Linux meter (NVML, ROCm-smi, RAPL)"
      THEN LinuxErrorMessage
    ELSE IF sel = "NotImplementedError: platform" THEN PlatformErrorMessage
    ELSE [supported |-> {}, advice |-> ""]

\* Faulty variant of RaiseLinux: the message of the final raise is used.
RaiseLinux_PlatformMessage ==
    /\ SelFrame
    /\ spc = "raise_linux"
    /\ selected' = "NotImplementedError: platform"
    /\ spc' = "done"
    /\ UNCHANGED <<platform, probe, tried, rapl_path>>

\* raise NotImplementedError("No energy meter available on this Linux system...")
RaiseLinux ==
    /\ SelFrame
    /\ spc = "raise_linux"
    /\ selected' = "NotImplementedError: no Linux meter (NVML, ROCm-smi, RAPL)"
    /\ spc' = "done"
    /\ UNCHANGED <<platform, probe, tried, rapl_path>>

\* raise NotImplementedError(f"No energy meter available for platform: ...")
RaisePlatform ==
    /\ SelFrame
    /\ \/ spc = "raise_platform"
       \/ spc = "start" /\ platform \notin {"darwin", "linux"}
    /\ selected' = "NotImplementedError: platform"
    /\ spc' = "done"
    /\ UNCHANGED <<platform, probe, tried, rapl_path>>

InitSelect ==
    /\ kind = "" /\ sampling_ms \in SamplingChoices
    /\ nvml_open = 0 /\ nvml_refs = 0
    /\ RunIdle /\ ExpIdle
    /\ platform \in Platforms
    /\ probe \in [nvml : NvmlEnvs, rocm : BOOLEAN, base : BOOLEAN]
    /\ spc = "start" /\ tried = <<>> /\ selected = ""
    /\ epc = "idle" /\ now = 0 /\ start_time = 0 /\ stop_time = 0
    /\ collected = <<>> /\ rapl_path = None
    /\ zones \in ZoneLists
    /\ probe.base \/ zones = <<>>
    /\ start_energy_uj = Zero /\ stop_energy_uj = Zero
    /\ energy_diff_uj = Zero /\ result = NoResult

NextSelect ==
    \/ ProbeMacos \/ ProbeNvml \/ ProbeRocm \/ ProbeRapl
    \/ RaiseLinux \/ RaisePlatform

SpecSelect == InitSelect /\ [][NextSelect]_vars

(***************************************************************************)
(* SpecEnergy: one start/stop window of one backend instance, with the     *)
(* values that decide its EnergyResult.  The worker's successful loop      *)
(* iterations appear as EnSample steps between start and stop.             *)
(***************************************************************************)
\* nvmlDeviceGetPowerUsage readings, in mW.
MilliwattChoices == {0, 10000, 20000, 30000}
\* Figures _parse_power extracts from rocm-smi output, in W.
WattChoices == {0, 10, 20, 30}

\* What one powermetrics line holds for each of the four patterns of
\* _parse_power_samples: the mW figure, NoMatch when re.search gives None,
\* BadNumber when the pattern matches text float() rejects (e.g. "1.2.3").
NoMatch == -1
BadNumber == -2
Line(comb, cpu, gpu, pkg) == [comb |-> comb, cpu |-> cpu, gpu |-> gpu, pkg |-> pkg]
LineChoices ==
    { Line(NoMatch, NoMatch, NoMatch, NoMatch),   \* a heading
      Line(5000, NoMatch, NoMatch, NoMatch),      \* Combined Power only
      Line(20000, 3000, NoMatch, NoMatch),        \* Combined and CPU Power
      Line(NoMatch, 10000, NoMatch, NoMatch),     \* CPU Power only
      Line(NoMatch, NoMatch, 30000, 7000),        \* GPU and Package Power
      Line(BadNumber, BadNumber, NoMatch, 10000) }

\* Contents the energy_uj file can have: 0, 1 uJ, 1000 J, 4000 J, 2^32 - 1,
\* 2^32, and two values near a max_energy_range_uj of 262 143 328 850.
MAX_COUNTER == Norm(4294, 967296)        \* max_counter = 2**32
CounterChoices ==
    { Zero, Norm(0, 1), Norm(1000, 0), Norm(4000, 0), Norm(4294, 967295),
      MAX_COUNTER, Norm(200000, 0), Norm(262143, 328849) }

Readings(k) ==
    CASE k = "NvmlMeter"    -> MilliwattChoices
      [] k = "RocmSmiMeter" -> WattChoices
      [] OTHER              -> LineChoices

\* No action of SpecEnergy touches these.
EnFrame == UNCHANGED <<kind, sampling_ms, nvml_open, nvml_refs, runVars,
                       selVars, zones, expVars>>

Max(a, b) == IF a >= b THEN a ELSE b

\* Faulty variant of LineSamples: the fragment patterns are tried before the
\* Combined Power one.
LineSamples_FragmentFirst(line) ==
    IF line.cpu >= 0 THEN <<line.cpu>>
    ELSE IF line.gpu >= 0 THEN <<line.gpu>>
    ELSE IF line.pkg >= 0 THEN <<line.pkg>>
    ELSE IF line.comb >= 0 THEN <<line.comb>>
    ELSE <<>>

\* One line of _parse_power_samples' loop body: the Combined Power figure if
\* it matches and converts, else the first of CPU, GPU, Package Power that
\* matches and converts, else nothing.
LineSamples(line) ==
    IF line.comb >= 0 THEN <<line.comb>>
    ELSE IF line.cpu >= 0 THEN <<line.cpu>>
    ELSE IF line.gpu >= 0 THEN <<line.gpu>>
    ELSE IF line.pkg >= 0 THEN <<line.pkg>>
    ELSE <<>>

\* MacosMeter._parse_power_samples: `for line in self.output_lines`
RECURSIVE ParsePowerSamples(_)
ParsePowerSamples(lines) ==
    IF lines = <<>> THEN <<>>
    ELSE LineSamples(Head(lines)) \o ParsePowerSamples(Tail(lines))

\* The integration loops of the three stop() methods.  power_watts is carried
\* in mW and dt_hours in ms, so one `avg_power * dt_hours` term is
\* (w[i] + w[i+1]) * ms half-microjoules.
\* Faulty variant of NvmlTrapezoid: the loop stops one pair early, range(len - 2).
RECURSIVE NvmlTrapezoid_OnePairShort(_, _, _, _)
NvmlTrapezoid_OnePairShort(power_watts, ms, i, energy_wh) ==
    IF i > Len(power_watts) - 2 THEN energy_wh
    ELSE NvmlTrapezoid_OnePairShort(power_watts, ms, i + 1,
                       energy_wh + (power_watts[i] + power_watts[i + 1]) * ms)

RECURSIVE NvmlTrapezoid(_, _, _, _)
NvmlTrapezoid(power_watts, ms, i, energy_wh) ==
    IF i > Len(power_watts) - 1 THEN energy_wh
    ELSE NvmlTrapezoid(power_watts, ms, i + 1,
                       energy_wh + (power_watts[i] + power_watts[i + 1]) * ms)

RECURSIVE RocmTrapezoid(_, _, _, _)
RocmTrapezoid(power_watts, ms, i, energy_wh) ==
    IF i > Len(power_watts) - 1 THEN energy_wh
    ELSE RocmTrapezoid(power_watts, ms, i + 1,
                       energy_wh + (power_watts[i] + power_watts[i + 1]) * ms)

RECURSIVE MacosTrapezoid(_, _, _, _)
MacosTrapezoid(power_watts, ms, i, energy_wh) ==
    IF i > Len(power_watts) - 1 THEN energy_wh
    ELSE MacosTrapezoid(power_watts, ms, i + 1,
                        energy_wh + (power_watts[i] + power_watts[i + 1]) * ms)

\* Faulty variant of NvmlEnergy: a lone sample is taken as constant power over one
\* sampling interval instead of giving 0.
NvmlEnergy_LoneSampleCounts(samples, ms) ==
    IF Len(samples) = 0 THEN 0
    ELSE IF Len(samples) = 1 THEN 2 * samples[1] * ms
    ELSE NvmlTrapezoid(samples, ms, 1, 0)

\* NvmlMeter.stop from `if len(self.power_samples) < 2`: energy_wh_raw.
NvmlEnergy(samples, ms) ==
    IF Len(samples) < 2 THEN 0
    ELSE NvmlTrapezoid(samples, ms, 1, 0)        \* p / 1000.0: mW as they are

\* RocmSmiMeter.stop from `if len(self.power_samples) < 2`: energy_wh_raw.
RocmEnergy(samples, ms) ==
    IF Len(samples) < 2 THEN 0
    ELSE RocmTrapezoid([i \in 1..Len(samples) |-> samples[i] * 1000],
                       ms, 1, 0)                 \* already watts: 1000 mW each

\* Faulty variant of MacosEnergy: no single-sample fallback (as in NvmlMeter.stop).
MacosEnergy_NoFallback(lines, ms, duration) ==
    LET parsed == ParsePowerSamples(lines) IN
    IF Len(parsed) < 2 THEN 0 ELSE MacosTrapezoid(parsed, ms, 1, 0)

\* MacosMeter.stop from `power_samples = self._parse_power_samples()`:
\* energy_wh_raw.
MacosEnergy(lines, ms, duration) ==
    LET parsed == ParsePowerSamples(lines) IN
    IF Len(parsed) < 2
      THEN IF Len(parsed) = 1
             THEN 2 * parsed[1] * duration       \* (p / 1000.0) * (duration_s / 3600.0)
             ELSE 0
      ELSE MacosTrapezoid(parsed, ms, 1, 0)

\* Faulty variant of RaplCorrectedDiff: the test is `<= 0`, so an unchanged counter
\* is taken for a wrap.
RaplCorrectedDiff_WrapOnZero(stop_uj, start_uj) ==
    LET diff == BigSub(stop_uj, start_uj) IN
    IF BigNeg(diff) \/ diff = Zero THEN BigAdd(diff, MAX_COUNTER) ELSE diff

\* RaplMeter.stop: energy_diff_uj after the wrap-around correction.
RaplCorrectedDiff(stop_uj, start_uj) ==
    LET diff == BigSub(stop_uj, start_uj) IN
    IF BigNeg(diff) THEN BigAdd(diff, MAX_COUNTER) ELSE diff

\* RaplMeter.stop: energy_wh = energy_diff_uj / 3_600_000_000.0
RaplEnergy(diff_uj) == BigAdd(diff_uj, diff_uj)

\* Wall-clock time passes.
EnTick ==
    /\ EnFrame
    /\ epc \in {"idle", "open"}
    /\ now + TickMs <= MaxNow
    /\ now' = now + TickMs
    /\ UNCHANGED <<epc, start_time, stop_time, collected, rapl_path,
                   start_energy_uj, stop_energy_uj, energy_diff_uj, result>>

\* start() of NvmlMeter, RocmSmiMeter, MacosMeter without exception; the
\* MacosMeter one returns after time.sleep(0.3).
EnStart ==
    /\ EnFrame
    /\ epc = "idle" /\ kind \in SampledKinds
    /\ collected' = <<>>
    /\ start_time' = now
    /\ now' = IF kind = "MacosMeter" THEN now + MACOS_WARMUP_MS ELSE now
    /\ epc' = "open"
    /\ UNCHANGED <<stop_time, rapl_path, start_energy_uj, stop_energy_uj,
                   energy_diff_uj, result>>

\* One iteration of the worker that appends: a power reading, or an output
\* line of powermetrics.
EnSample ==
    /\ EnFrame
    /\ epc = "open" /\ kind \in SampledKinds
    /\ Len(collected) < MaxReadings
    /\ \E r \in Readings(kind) : collected' = Append(collected, r)
    /\ UNCHANGED <<epc, now, start_time, stop_time, rapl_path, start_energy_uj,
                   stop_energy_uj, energy_diff_uj, result>>

\* stop() of NvmlMeter and RocmSmiMeter.
EnStop ==
    /\ EnFrame
    /\ epc = "open" /\ kind \in {"NvmlMeter", "RocmSmiMeter"}
    /\ stop_time' = now
    /\ LET duration_s == stop_time' - start_time
           energy == IF kind = "NvmlMeter"
                       THEN NvmlEnergy(collected, sampling_ms)
                       ELSE RocmEnergy(collected, sampling_ms)
       IN result' = EnergyResult(ToBig(energy), duration_s, sampling_ms)
    /\ epc' = "done"
    /\ UNCHANGED <<now, start_time, collected, rapl_path, start_energy_uj,
                   stop_energy_uj, energy_diff_uj>>

\* MacosMeter.stop(): time.sleep(max(0.15, self.sampling_ms / 1000.0)) comes
\* before stop_time is taken.
EnMacosStop ==
    /\ EnFrame
    /\ epc = "open" /\ kind = "MacosMeter"
    /\ now' = now + Max(MACOS_TRAIL_MS, sampling_ms)
    /\ stop_time' = now'
    /\ LET duration_s == stop_time' - start_time
       IN result' = EnergyResult(
                      ToBig(MacosEnergy(collected, sampling_ms, duration_s)),
                      duration_s, sampling_ms)
    /\ epc' = "done"
    /\ UNCHANGED <<start_time, collected, rapl_path, start_energy_uj,
                   stop_energy_uj, energy_diff_uj>>

\* RaplMeter.start(): is_available() (which caches the zone), the explicit
\* os.access check, start_time, the first counter read.
EnRaplStart ==
    /\ EnFrame
    /\ epc = "idle" /\ kind = "RaplMeter"
    /\ rapl_path' = RaplScan(probe.base, zones)
    /\ IF rapl_path' = None
         THEN /\ result' = Raised("RuntimeError")
              /\ epc' = "failed"
              /\ UNCHANGED <<start_time, start_energy_uj>>
         ELSE IF zones[rapl_path'] = "unreadable"
           THEN /\ result' = Raised("PermissionError")
                /\ epc' = "failed"
                /\ UNCHANGED <<start_time, start_energy_uj>>
           ELSE /\ start_time' = now
                /\ \/ \E v \in CounterChoices :
                        /\ start_energy_uj' = v
                        /\ epc' = "open"
                        /\ result' = result
                   \/ /\ result' = Raised("RuntimeError")   \* the read fails
                      /\ epc' = "failed"
                      /\ start_energy_uj' = start_energy_uj
    /\ UNCHANGED <<now, stop_time, collected, stop_energy_uj, energy_diff_uj>>

\* RaplMeter.stop(): stop_time, the second counter read, the difference and
\* its correction, the conversion.
EnRaplStop ==
    /\ EnFrame
    /\ epc = "open" /\ kind = "RaplMeter"
    /\ stop_time' = now
    /\ \/ \E v \in CounterChoices :
            /\ stop_energy_uj' = v
            /\ energy_diff_uj' = RaplCorrectedDiff(v, start_energy_uj)
            /\ result' = EnergyResult(RaplEnergy(energy_diff_uj'),
                                      stop_time' - start_time, sampling_ms)
            /\ epc' = "done"
       \/ /\ result' = Raised("RuntimeError")               \* the read fails
          /\ epc' = "failed"
          /\ UNCHANGED <<stop_energy_uj, energy_diff_uj>>
    /\ UNCHANGED <<now, start_time, collected, rapl_path, start_energy_uj>>

InitEnergy ==
    /\ kind \in AllKinds
    /\ sampling_ms \in SamplingChoices
    /\ nvml_open = 0 /\ nvml_refs = 0
    /\ RunIdle /\ ExpIdle
    /\ platform = "" /\ spc = "idle" /\ tried = <<>> /\ selected = ""
    /\ probe \in [nvml : {"count_1"}, rocm : {TRUE}, base : BOOLEAN]
    /\ zones \in ZoneLists
    /\ probe.base \/ zones = <<>>
    /\ kind = "RaplMeter" \/ (probe.base /\ zones = <<>>)
    /\ epc = "idle" /\ now = 0 /\ start_time = 0 /\ stop_time = 0
    /\ collected = <<>> /\ rapl_path = None
    /\ start_energy_uj = Zero /\ stop_energy_uj = Zero
    /\ energy_diff_uj = Zero /\ result = NoResult

NextEnergy ==
    \/ EnTick \/ EnStart \/ EnSample \/ EnStop \/ EnMacosStop
    \/ EnRaplStart \/ EnRaplStop

SpecEnergy == InitEnergy /\ [][NextEnergy]_vars

(***************************************************************************)
(* SpecExport: one call of result_exporter.export_results.  Energies are   *)
(* carried in microwatt-hours (run_test rounds them to six decimals), the  *)
(* derived metrics in the unit of their last kept decimal.                 *)
(***************************************************************************)
MaxResults == 2      \* longest results_list of SpecExport

\* Entries of results_list: token counts and net energy, and whether
\* json.dump can serialise every value of the dictionary.
ResultChoices ==
    { [tokens_prompt |-> t[1], tokens_completion |-> t[2],
       energy_wh_net |-> e, serializable |-> TRUE] :
        t \in {<<0, 0>>, <<2, 1>>}, e \in {0, 5} }
    \cup { [tokens_prompt |-> 2, tokens_completion |-> 1,
            energy_wh_net |-> 5, serializable |-> FALSE] }
ResultLists == UNION {[1..n -> ResultChoices] : n \in 0..MaxResults}
Co2Choices == {0, 400}
\* schema_path is None; or it names no file, a file that cannot be opened,
\* a schema the enriched results conform to, or one they violate.
SchemaChoices == {"none", "missing", "unreadable", "conforms", "violates"}
\* The output path: its directory exists, can be created or cannot; the
\* file is absent or holds an older document, and can be opened for writing
\* or not.
FileChoices ==
    { [dir |-> "exists", state |-> st, writable |-> w, content |-> <<>>] :
        st \in {"absent", "old"}, w \in BOOLEAN }
    \cup { [dir |-> d, state |-> "absent", writable |-> TRUE,
            content |-> <<>>] : d \in {"missing", "forbidden"} }

ExpFrame == UNCHANGED <<kind, sampling_ms, nvml_open, nvml_refs, runVars,
                        selVars, enVars, results_list, co2_intensity,
                        schema_path>>

\* round(a / b, n) for a >= 0 and b > 0, in units of the n-th decimal:
\* to the nearest, ties to the even neighbour.
RoundDiv(a, b) ==
    LET q == a \div b
        r == a % b
    IN IF 2 * r > b \/ (2 * r = b /\ q % 2 = 1) THEN q + 1 ELSE q

\* The body of `for result in results_list`: the enriched dictionary.
Enriched(r, co2) ==
    LET total_tokens == r.tokens_prompt + r.tokens_completion
    IN [tokens_prompt |-> r.tokens_prompt,
        tokens_completion |-> r.tokens_completion,
        energy_wh_net |-> r.energy_wh_net,
        serializable |-> r.serializable,
        wh_per_1k_tokens |->
            IF total_tokens > 0
              THEN RoundDiv(r.energy_wh_net * 1000, total_tokens) ELSE 0,
        energy_kwh_per_token |->
            IF total_tokens > 0
              THEN RoundDiv(r.energy_wh_net, total_tokens) ELSE 0,
        g_co2 |-> RoundDiv(r.energy_wh_net * co2, 1000)]

\* The chunks json.dump has written when it meets a value it cannot
\* serialise: the entries before that one.
RECURSIVE Serialised(_)
Serialised(rs) ==
    IF rs = <<>> \/ ~Head(rs).serializable THEN <<>>
    ELSE <<Head(rs)>> \o Serialised(Tail(rs))

\* Lines 35-67: the derived metrics of every result.
ExpEnrich ==
    /\ ExpFrame
    /\ xpc = "start"
    /\ enriched_results' =
         [k \in 1..Len(results_list) |->
            Enriched(results_list[k], co2_intensity)]
    /\ xpc' = "validate"
    /\ UNCHANGED <<output_file, export_error>>

\* Faulty variant of ExpValidate: a failed validation is only reported and
\* the function goes on to write.
ExpValidate_Swallows ==
    /\ ExpFrame
    /\ xpc = "validate"
    /\ IF schema_path = "unreadable"
         THEN xpc' = "raised" /\ export_error' = "PermissionError"
         ELSE xpc' = "mkdir" /\ export_error' = export_error
    /\ UNCHANGED <<output_file, enriched_results>>

\* Lines 70-78: `if schema_path:` the schema is loaded and the enriched
\* results validated; ValidationError and FileNotFoundError become
\* ValueError, any other exception leaves the function as it is.
ExpValidate ==
    /\ ExpFrame
    /\ xpc = "validate"
    /\ CASE schema_path \in {"none", "conforms"} ->
              xpc' = "mkdir" /\ export_error' = export_error
         [] schema_path \in {"missing", "violates"} ->
              xpc' = "raised" /\ export_error' = "ValueError"
         [] OTHER ->
              xpc' = "raised" /\ export_error' = "PermissionError"
    /\ UNCHANGED <<output_file, enriched_results>>

\* Lines 81-82: output_path.parent.mkdir(parents=True, exist_ok=True)
ExpMkdir ==
    /\ ExpFrame
    /\ xpc = "mkdir"
    /\ IF output_file.dir = "forbidden"
         THEN /\ xpc' = "raised" /\ export_error' = "PermissionError"
              /\ output_file' = output_file
         ELSE /\ xpc' = "write" /\ export_error' = export_error
              /\ output_file' = [output_file EXCEPT !.dir = "exists"]
    /\ UNCHANGED enriched_results

\* Lines 85-89: open(output_file, "w") and json.dump; whatever they raise
\* becomes IOError.  open truncates the file before json.dump writes.
ExpWrite ==
    /\ ExpFrame
    /\ xpc = "write"
    /\ LET written == Serialised(enriched_results)
       IN CASE ~output_file.writable ->
                 /\ xpc' = "raised" /\ export_error' = "IOError"
                 /\ output_file' = output_file
            [] output_file.writable /\ written # enriched_results ->
                 /\ xpc' = "raised" /\ export_error' = "IOError"
                 /\ output_file' = [output_file EXCEPT !.state = "partial",
                                                       !.content = written]
            [] OTHER ->
                 /\ xpc' = "returned" /\ export_error' = export_error
                 /\ output_file' = [output_file EXCEPT !.state = "written",
                                                       !.content = written]
    /\ UNCHANGED enriched_results

InitExport ==
    /\ kind = "" /\ sampling_ms = DEFAULT_SAMPLING_MS
    /\ nvml_open = 0 /\ nvml_refs = 0
    /\ RunIdle /\ SelIdle /\ EnIdle
    /\ results_list \in ResultLists
    /\ co2_intensity \in Co2Choices
    /\ schema_path \in SchemaChoices
    /\ output_file \in FileChoices
    /\ enriched_results = <<>>
    /\ xpc = "start" /\ export_error = ""

NextExport ==
    \/ ExpEnrich \/ ExpValidate \/ ExpMkdir \/ ExpWrite

SpecExport == InitExport /\ [][NextExport]_vars

(***************************************************************************)
(* Claims settled against Spec.                                            *)
(***************************************************************************)

\* C1: on one meter instance, whatever starts and stops run_test has made,
\* at most one worker thread able to append to the sample sequence is alive.
C1_AtMostOneLiveWorker ==
    Cardinality({i \in Threads : Alive(i)}) <= 1

\* C2: when stop() reads the sample sequence (pc = "compute") and when it has
\* returned (pc = "record" or "exited"), the thread it joined has terminated.
C2_WorkerTerminatedAtRead ==
    pc \in {"compute", "record", "exited"} => ~ThreadIsAlive

\* C3: the sample sequence grows only while a window is open: every step that
\* appends to it starts in a state where start() has succeeded and stop()
\* has not yet returned.
C3_AppendOnlyInWindow ==
    [][Len(power_samples') > Len(power_samples) => windowOpen]_vars

\* C4: start() and stop() alternate in the prompt loop: whenever run_test is
\* about to call meter.start(), no window of an earlier start() is open.
C4_StartOnlyWhenClosed ==
    pc = "start" => ~windowOpen

\* C14: a start() of MacosMeter, NvmlMeter or RocmSmiMeter that fails (the
\* step from "start" back to the loop is run_test's handler catching its
\* error) launches no worker thread and no child process and leaves the
\* running flag false.
C14_FailedStartLeavesClosed ==
    [][(pc = "start" /\ pc' = "loop")
          => (~running' /\ workers' = workers /\ procs' = procs)]_vars

\* C15: NvmlMeter pairs nvmlInit with nvmlShutdown: a start() that fails leaves
\* no initialization of its own behind, and whenever a stop() has returned
\* every successful nvmlInit of a start() has had its nvmlShutdown call.
C15_NvmlInitShutdownPaired ==
    /\ [](kind = "NvmlMeter" /\ pc \in {"record", "exited"} => nvml_open = 0)
    /\ [][(kind = "NvmlMeter" /\ pc = "start" /\ pc' = "loop")
             => nvml_open' = nvml_open]_vars

\* C16: a poll of _poll_power that fails (the worker leaves "poll" and the
\* sample sequence is as it was) raises nothing to the main thread and does
\* not end or repeat at once: the worker sleeps one interval, looks at the
\* flag, and polls again if the flag is still set.
C16_FailedPollSkipped ==
    [][\A i \in Threads :
         /\ (workers[i].pc = "poll" /\ workers'[i].pc # "poll"
                /\ power_samples' = power_samples)
              => (workers'[i].pc = "sleep" /\ pc' = pc /\ results' = results)
         /\ (workers[i].pc = "sleep" /\ workers'[i].pc # "sleep")
              => workers'[i].pc = "check"
         /\ (workers[i].pc = "check" /\ workers'[i].pc # "check" /\ running)
              => workers'[i].pc = "poll"]_vars

\* C16 witness: the worker of the open window sleeps after its first poll
\* and the sample sequence is empty: that poll failed.
C16_Witness ==
    /\ kind \in {"NvmlMeter", "RocmSmiMeter"}
    /\ windowOpen /\ running /\ pc = "generate"
    /\ thread = 1 /\ NextThread = 2
    /\ workers[thread].pc = "sleep" /\ power_samples = <<>>

\* C17: MacosMeter.stop() waits for the child only after it has cleared the
\* running flag and sent terminate, and reaches the join of the reader, the
\* computation and its return only when the child has exited (on terminate,
\* or on the kill that follows a wait that timed out).
C17_MacosShutdownOrder ==
    (kind = "MacosMeter" /\ process # None) =>
        /\ pc = "wait" => (~running /\ procs[process].termSent)
        /\ pc \in {"join", "compute", "record", "exited"}
             => procs[process].state = "exited"

\* C17 witness: stop() has returned for a child that ignored terminate.
C17_Witness ==
    /\ kind = "MacosMeter" /\ pc = "record" /\ process # None
    /\ procs[process].stubborn /\ procs[process].termSent
    /\ procs[process].state = "exited"

\* C23: an error of meter.start() or meter.stop() ends its prompt only: the
\* prompt loop is left, and the interpreter's exit handlers run, only after
\* the loop has taken every prompt of the testset.
C23_ErrorFatalToPromptOnly ==
    atexit => idx = NumPrompts

\* C24: run_test never calls start() on an instance that has been started
\* before: when it is about to call start() on a sampling meter, the instance
\* has launched no worker yet.
C24_OneCyclePerInstance ==
    (pc = "start" /\ kind \in SampledKinds) => NextThread = 1

\* C25: when sudo refused the powermetrics child of MacosMeter, stop() does not
\* return an EnergyResult to the prompt loop.
C25_MacosPermissionDenied ==
    (kind = "MacosMeter" /\ process # None /\ procs[process].denied)
    => pc # "record"

\* C28: no worker of an NvmlMeter makes a nvmlDeviceGetPowerUsage call while
\* the library is shut down.
C28_NoQueryAfterShutdown ==
    [][kind = "NvmlMeter" =>
         \A i \in Threads :
           (workers[i].pc = "poll" /\ workers'[i].pc # "poll")
             => nvml_refs > 0]_vars

\* C29: once stop() of an NvmlMeter or RocmSmiMeter has cleared the flag and
\* waits for worker i, worker i eventually returns from _poll_power (or the
\* process has exited and taken its daemon threads with it).
C29_WorkerEventuallyTerminates ==
    \A i \in Threads :
      (kind \in {"NvmlMeter", "RocmSmiMeter"} /\ pc = "join" /\ thread = i
         /\ Alive(i))
      ~> (~Alive(i) \/ pc = "exited")

\* C30: the samples stop() computes its EnergyResult from were all appended
\* by the worker of the window it closes.
C30_OwnSamplesOnly ==
    (pc = "compute" /\ kind \in SampledKinds) =>
        \A k \in 1..Len(power_samples) : power_samples[k] = thread

(***************************************************************************)
(* Claims settled against SpecSelect.                                      *)
(***************************************************************************)

\* C5: on linux get_platform_meter returns the first of NvmlMeter,
\* RocmSmiMeter, RaplMeter whose probe succeeded; in particular NvmlMeter
\* when both the NVML probe and the rocm-smi probe succeed.
C5_LinuxPriority ==
    (spc = "done" /\ platform = "linux") =>
        /\ NvmlIsAvailable(probe.nvml) => selected = "NvmlMeter"
        /\ (~NvmlIsAvailable(probe.nvml) /\ RocmIsAvailable(probe.rocm))
              => selected = "RocmSmiMeter"
        /\ (~NvmlIsAvailable(probe.nvml) /\ ~RocmIsAvailable(probe.rocm)
              /\ RaplIsAvailable(probe.base, zones))
              => selected = "RaplMeter"

\* C5 witness: selection finished on a linux host where the NVML probe and
\* the rocm-smi probe both succeed.
C5_Witness ==
    /\ spc = "done" /\ platform = "linux"
    /\ NvmlIsAvailable(probe.nvml) /\ RocmIsAvailable(probe.rocm)
    /\ selected = "NvmlMeter"

\* get_platform_meter has constructed and probed meter class m.
Tried(m) == \E i \in 1..Len(tried) : tried[i] = m

\* No zone of the glob has an energy_uj entry.
NoCounterFile == \A i \in 1..Len(zones) : zones[i] = "no_file"

C13_ProbeReleasesNvml ==
    Tried("NvmlMeter") => nvml_open = 0

\* C19: on darwin only MacosMeter is constructed and probed, the NVML library
\* is not touched, and the meter returned is a MacosMeter.
C19_DarwinOnlyMacos ==
    platform = "darwin" =>
        /\ \A i \in 1..Len(tried) : tried[i] = "MacosMeter"
        /\ nvml_open = 0 /\ rapl_path = None
        /\ spc = "done" => (tried = <<"MacosMeter">> /\ selected = "MacosMeter")

\* C19 witness: selection finished on a darwin host on which the NVML, the
\* rocm-smi and the RAPL probe would all have succeeded.
C19_Witness ==
    /\ platform = "darwin" /\ spc = "done" /\ selected = "MacosMeter"
    /\ NvmlIsAvailable(probe.nvml) /\ RocmIsAvailable(probe.rocm)
    /\ RaplIsAvailable(probe.base, zones)

\* C20: on linux with none of the three probes succeeding, get_platform_meter
\* has tried NvmlMeter, RocmSmiMeter and RaplMeter, returns no meter, and
\* raises the NotImplementedError whose message lists NVML, ROCm-smi and RAPL
\* and advises to check that drivers and tools are installed.
C20_LinuxNoMeterError ==
    (/\ spc = "done" /\ platform = "linux"
     /\ ~NvmlIsAvailable(probe.nvml) /\ ~RocmIsAvailable(probe.rocm)
     /\ ~RaplIsAvailable(probe.base, zones))
    => /\ tried = <<"NvmlMeter", "RocmSmiMeter", "RaplMeter">>
       /\ selected \notin AllKinds
       /\ ErrorMessage(selected).supported =
            {"NVIDIA GPU (NVML)", "AMD GPU (ROCm-smi)", "Intel/AMD CPU (RAPL)"}
       /\ ErrorMessage(selected).advice =
            "Please check that appropriate drivers and tools are installed."

\* C20 witness: the error was raised on a linux host with an NVML library
\* that reports no device, no rocm-smi, and RAPL zones without energy_uj.
C20_Witness ==
    /\ spc = "done" /\ platform = "linux"
    /\ probe.nvml = "count_0" /\ ~probe.rocm
    /\ probe.base /\ Len(zones) >= 1 /\ NoCounterFile
    /\ selected = "NotImplementedError: no Linux meter (NVML, ROCm-smi, RAPL)"

\* C21: on a platform other than darwin and linux get_platform_meter has
\* constructed no meter, returns none, and raises an error whose message
\* lists the supported backends.
C21_OtherPlatformError ==
    (spc = "done" /\ platform \notin {"darwin", "linux"})
    => /\ tried = <<>> /\ selected \notin AllKinds
       /\ {"NVIDIA GPU (NVML)", "AMD GPU (ROCm-smi)", "Intel/AMD CPU (RAPL)"}
            \subseteq ErrorMessage(selected).supported

\* C22: RaplMeter.is_available is true only if some zone has a readable
\* energy_uj, and the zone it caches is the first readable one.
C22_RaplCachesReadableZone ==
    Tried("RaplMeter") =>
        /\ RaplIsAvailable(probe.base, zones)
             => \E i \in 1..Len(zones) : zones[i] = "readable"
        /\ rapl_path # None
             => /\ zones[rapl_path] = "readable"
                /\ \A j \in 1..(rapl_path - 1) : zones[j] # "readable"

\* What platform and probe results alone determine.
ExpectedSelection ==
    IF platform = "darwin" THEN "MacosMeter"
    ELSE IF platform = "linux"
      THEN IF NvmlIsAvailable(probe.nvml) THEN "NvmlMeter"
           ELSE IF RocmIsAvailable(probe.rocm) THEN "RocmSmiMeter"
           ELSE IF RaplIsAvailable(probe.base, zones) THEN "RaplMeter"
           ELSE "NotImplementedError: no Linux meter (NVML, ROCm-smi, RAPL)"
    ELSE "NotImplementedError: platform"

\* C27: what get_platform_meter returns or raises is a function of the
\* platform and the probe results, the same for every sampling_ms.
C27_SelectionDeterministic ==
    spc = "done" => selected = ExpectedSelection

\* C27 witness: RocmSmiMeter was selected for a sampling interval other than
\* the default.
C27_Witness ==
    /\ spc = "done" /\ platform = "linux" /\ selected = "RocmSmiMeter"
    /\ sampling_ms = LongSamplingMs

(***************************************************************************)
(* Claims settled against SpecEnergy.                                      *)
(***************************************************************************)

\* A counter value in [0, 2^32).
InCounterRange(v) == ~BigNeg(v) /\ BigLess(v, MAX_COUNTER)

\* C6: for start and stop counter values in [0, 2^32) the corrected
\* difference of RaplMeter.stop lies in [0, 2^32) and is congruent to
\* stop - start modulo 2^32 (start + diff is stop, or stop plus one wrap
\* period); start 4 000 000 000 and stop 1 000 000 000 give 1 294 967 296.
C6_RaplWrapCorrection ==
    (/\ kind = "RaplMeter" /\ result.returned
     /\ InCounterRange(start_energy_uj) /\ InCounterRange(stop_energy_uj))
    => /\ InCounterRange(energy_diff_uj)
       /\ BigAdd(start_energy_uj, energy_diff_uj)
            \in {stop_energy_uj, BigAdd(stop_energy_uj, MAX_COUNTER)}
       /\ (start_energy_uj = Norm(4000, 0) /\ stop_energy_uj = Norm(1000, 0))
            => energy_diff_uj = Norm(1294, 967296)

\* C6 witness: RaplMeter.stop has returned for the wrapped pair of the
\* example.
C6_Witness ==
    /\ kind = "RaplMeter" /\ result.returned
    /\ start_energy_uj = Norm(4000, 0) /\ stop_energy_uj = Norm(1000, 0)
    /\ energy_diff_uj = Norm(1294, 967296)

\* C7: every EnergyResult returned by stop() of any of the four backends has
\* energy_wh_raw >= 0.
C7_EnergyNonNegative ==
    result.returned => ~BigNeg(result.energy_wh_raw)

\* The watt sequence stop() integrates, in mW: the NVML readings, the
\* rocm-smi figures, the figures parsed from the powermetrics lines.
WattSequence ==
    CASE kind = "NvmlMeter"    -> collected
      [] kind = "RocmSmiMeter" -> [i \in 1..Len(collected) |-> collected[i] * 1000]
      [] kind = "MacosMeter"   -> ParsePowerSamples(collected)
      [] OTHER                 -> <<>>

RECURSIVE SeqSum(_)
SeqSum(q) == IF q = <<>> THEN 0 ELSE Head(q) + SeqSum(Tail(q))

\* Sum over consecutive pairs of ((p_i + p_{i+1}) / 2) * dt, in
\* half-microjoules: every inner sample counts twice, the two end samples
\* once.
PairAverageSum(q, ms) == (2 * SeqSum(q) - q[1] - q[Len(q)]) * ms

\* C8: for a sample sequence of length >= 2 the energy stop() of MacosMeter,
\* NvmlMeter and RocmSmiMeter returns is the sum over consecutive pairs of
\* their average times the sampling interval, the same for the three
\* backends on the same watt sequence and interval.
C8_TrapezoidalSum ==
    (/\ kind \in SampledKinds /\ result.returned /\ Len(WattSequence) >= 2)
    => result.energy_wh_raw = ToBig(PairAverageSum(WattSequence, sampling_ms))

\* C8 witness: [10, 20, 30] W at 100 ms integrated to (15 + 25) W * 100 ms,
\* 8 000 000 half-microjoules, by NvmlMeter.stop.
C8_Witness ==
    /\ kind = "NvmlMeter" /\ result.returned /\ sampling_ms = 100
    /\ collected = <<10000, 20000, 30000>>
    /\ result.energy_wh_raw = ToBig(8000000)

C10_PollersFewSamples ==
    (/\ kind \in {"NvmlMeter", "RocmSmiMeter"} /\ result.returned
     /\ Len(collected) < 2)
    => /\ result.energy_wh_raw = Zero
       /\ result.duration_s = stop_time - start_time

\* C10 witness: NvmlMeter.stop has returned after a window of positive length
\* that started after time 0 and collected one non-zero sample.
C10_Witness ==
    /\ kind = "NvmlMeter" /\ result.returned
    /\ Len(collected) = 1 /\ collected[1] > 0
    /\ start_time > 0 /\ result.duration_s > 0
    /\ result.energy_wh_raw = Zero

\* C26: every EnergyResult comes from an instance whose sampling interval is
\* positive, and carries that interval in its sampling_ms field.
C26_SamplingPositiveConstant ==
    result.returned => (sampling_ms > 0 /\ result.sampling_ms = sampling_ms)

\* The first zone of the glob that has an energy_uj entry cannot be read.
FirstCounterUnreadable ==
    /\ probe.base
    /\ \E i \in 1..Len(zones) :
         /\ zones[i] = "unreadable"
         /\ \A j \in 1..(i - 1) : zones[j] = "no_file"

\* C11: RaplMeter.start() on a zone whose energy_uj exists and cannot be read
\* fails with PermissionError, not RuntimeError, and has then recorded
\* neither a start time nor a baseline counter value.
C11_RaplPermissionDenied ==
    (kind = "RaplMeter" /\ epc # "idle" /\ FirstCounterUnreadable)
    => /\ epc = "failed" /\ ~result.returned
       /\ result.error = "PermissionError"
       /\ start_time = 0 /\ start_energy_uj = Zero

\* C11 witness: start() was called after time 0 on a host whose first zone is
\* unreadable and whose second zone is readable, and raised PermissionError.
C11_Witness ==
    /\ kind = "RaplMeter" /\ epc = "failed" /\ now > 0
    /\ zones = <<"unreadable", "readable">> /\ rapl_path = 1
    /\ result.error = "PermissionError"

\* C18: _parse_power_samples, line by line: line k adds at most one sample,
\* after those of the lines before it; the Combined Power figure if the line
\* has one, else nothing or one of the line's CPU, GPU, Package figures.
C18_CombinedPrecedence ==
    (kind = "MacosMeter" /\ epc = "done") =>
      \A k \in 1..Len(collected) :
        LET before == ParsePowerSamples(SubSeq(collected, 1, k - 1))
            upto == ParsePowerSamples(SubSeq(collected, 1, k))
            line == collected[k]
        IN /\ Len(upto) \in {Len(before), Len(before) + 1}
           /\ SubSeq(upto, 1, Len(before)) = before
           /\ line.comb >= 0 => upto = Append(before, line.comb)
           /\ (line.comb < 0 /\ Len(upto) > Len(before))
                => /\ upto[Len(upto)] >= 0
                   /\ upto[Len(upto)] \in {line.cpu, line.gpu, line.pkg}

\* C18 witness: stop() parsed a CPU Power line followed by a line with both
\* a Combined Power and a CPU Power figure into the CPU figure of the first
\* and the combined figure of the second.
C18_Witness ==
    /\ kind = "MacosMeter" /\ epc = "done"
    /\ collected = << Line(NoMatch, 10000, NoMatch, NoMatch),
                      Line(20000, 3000, NoMatch, NoMatch) >>
    /\ ParsePowerSamples(collected) = <<10000, 20000>>
    /\ result.energy_wh_raw = ToBig(30000 * sampling_ms)

(***************************************************************************)
(* Claims about the line reader, the calls of stop(), the results list of  *)
(* run_test (Spec) and export_results (SpecExport).                        *)
(***************************************************************************)

\* C31: while a MacosMeter window is open, the captured line sequence is a
\* prefix of the lines the window's own subprocess has emitted: its k-th
\* element is the k-th line of that subprocess, so no line is missing,
\* doubled, out of order or taken from elsewhere.
C31_CapturedIsPrefix ==
    (kind = "MacosMeter" /\ windowOpen /\ process # None) =>
        /\ Len(power_samples) <= procs[process].emitted
        /\ \A k \in 1..Len(power_samples) :
             power_samples[k] = process /\ line_nos[k] = k

\* C32: whenever run_test or its exit-time cleanup handler is about to call
\* meter.stop(), the meter has an open window: a start() has returned and
\* no stop() has returned since.
C32_StopOnlyOpenWindow ==
    pc = "stop" => windowOpen

\* The prompts whose start(), generate() and stop() all returned.
SucceededPrompts ==
    {i \in 1..NumPrompts : calls_ok[i] = {"start", "generate", "stop"}}

\* The elements of a set of prompt indexes, in prompt order.
RECURSIVE InPromptOrder(_)
InPromptOrder(S) ==
    IF S = {} THEN <<>>
    ELSE LET m == CHOOSE x \in S : \A y \in S : x <= y
         IN <<m>> \o InPromptOrder(S \ {m})

\* C33: the results list holds, in prompt order, exactly one entry for each
\* prompt whose start(), generate() and stop() all succeeded (the entry of
\* the current prompt follows once the loop body reaches its append) and
\* none for any other prompt; export_results is called only with a
\* non-empty list, and with an empty list the program ends with status 1
\* and no export.
C33_ResultsMatchSuccesses ==
    /\ results = InPromptOrder(IF pc = "record"
                                 THEN SucceededPrompts \ {idx}
                                 ELSE SucceededPrompts)
    /\ export_called => results # <<>>
    /\ (exit_status # NotExited /\ results = <<>>) =>
          (exit_status = 1 /\ ~export_called)

\* A run whose first prompt failed in generate() and whose second prompt
\* succeeded has ended after exporting the one entry of the second prompt.
C33_Witness ==
    /\ pc = "exited" /\ export_called
    /\ calls_ok[1] = {"start"}
    /\ results = <<2>>

\* C34: when a schema path is given and the schema file is missing or the
\* enriched results violate the schema, export_results never gets past the
\* validation, raises ValueError and leaves the output file as it was
\* (absent or with its old content); a file that has been written or
\* begun implies that no validation was asked for or that it succeeded.
C34_WriteOnlyAfterValidation ==
    /\ schema_path \in {"missing", "violates"} =>
          /\ xpc \in {"start", "validate", "raised"}
          /\ output_file.state \in {"absent", "old"}
          /\ xpc = "raised" => export_error = "ValueError"
    /\ output_file.state \in {"written", "partial"} =>
          schema_path \in {"none", "conforms"}

\* export_results has raised on results that violate the schema, with an
\* older document in place.
C34_Witness ==
    /\ xpc = "raised" /\ export_error = "ValueError"
    /\ schema_path = "violates"
    /\ enriched_results # <<>>
    /\ output_file.state = "old"

====
